---- MODULE Spec2Model ----
(***************************************************************************)
(* Model of api/index.js: a Cloudflare-Worker style fetch handler that     *)
(* resolves a MediaFire share link to its direct download URL and relays   *)
(* the file.                                                               *)
(*                                                                         *)
(* Representation of text.  TLC has no character operations on strings,    *)
(* so every text the handler takes apart is a sequence of chunks: a chunk  *)
(* is either one of the characters the code looks for ("." "+" "%" "/"     *)
(* ";" and the double quote) or a run of characters none of which the code *)
(* looks for.  The landing page is a sequence of markup tokens, each       *)
(* standing for the literal text given beside its definition.              *)
(***************************************************************************)
EXTENDS Integers, Sequences, FiniteSets, TLC

VARIABLES
    pc,                 \* position of the handler: "idle", "awaitPage", "awaitFile", "done"
    request,            \* the incoming request: method and the `require` query value
    fetches,            \* outbound fetch() calls issued so far, in order
    pageStatus,         \* status of mediafirePageResponse (0 while there is none)
    htmlContent,        \* text of the landing page (<<>> while unread)
    bodyRead,           \* TRUE once mediafirePageResponse.text() has resolved
    directDownloadUrl,  \* the extracted URL, NULL while absent
    fileResponse,       \* status and headers of fileResponse
    responses           \* the responses the handler has returned

vars == <<pc, request, fetches, pageStatus, htmlContent, bodyRead,
          directDownloadUrl, fileResponse, responses>>

\* Longest landing page, in tokens.
MaxPageLen == 4

NULL == "null"
Q == "\""

-----------------------------------------------------------------------------
(* Chunk strings *)

Min(S) == CHOOSE x \in S : \A y \in S : x <= y
Max(S) == CHOOSE x \in S : \A y \in S : x >= y

\* String.prototype.includes: `needle` occurs in `s` as a contiguous run.
Includes(s, needle) ==
    \E i \in 1..(Len(s) - Len(needle) + 1) :
        SubSeq(s, i, i + Len(needle) - 1) = needle

\* String.prototype.split(sep): the pieces of `s` between occurrences of sep.
RECURSIVE Split(_, _)
Split(s, sep) ==
    LET seps == {i \in 1..Len(s) : s[i] = sep}
    IN  IF seps = {} THEN <<s>>
        ELSE <<SubSeq(s, 1, Min(seps) - 1)>>
             \o Split(SubSeq(s, Min(seps) + 1, Len(s)), sep)

\* replace(/\+/g, ' ')
ReplacePlus(s) == [i \in 1..Len(s) |-> IF s[i] = "+" THEN " " ELSE s[i]]

\* The percent escapes of the model: the two hex digits after "%" and the
\* character they stand for.
PercentEscapes == [x \in {"20", "2E"} |-> IF x = "20" THEN " " ELSE "."]

\* decodeURIComponent throws URIError when a "%" is not followed by two hex
\* digits that complete a UTF-8 sequence.
DecodeThrows(s) ==
    \E i \in 1..Len(s) :
        s[i] = "%" /\ (i = Len(s) \/ s[i + 1] \notin DOMAIN PercentEscapes)

\* decodeURIComponent on a string it accepts.
RECURSIVE decodeURIComponent(_)
decodeURIComponent(s) ==
    IF s = <<>> THEN <<>>
    ELSE IF s[1] = "%"
         THEN <<PercentEscapes[s[2]]>> \o decodeURIComponent(SubSeq(s, 3, Len(s)))
         ELSE <<s[1]>> \o decodeURIComponent(Tail(s))

-----------------------------------------------------------------------------
(* The `require` value *)

\* A link is what the string begins with, up to and including the first "/"
\* after the authority, followed by its path segments.  `present` is FALSE
\* when the query has no `require` parameter (searchParams.get gives null).
Link(present, prefix, path) == [present |-> present, prefix |-> prefix, path |-> path]

NoRequire    == Link(FALSE, "", <<>>)
EmptyRequire == Link(TRUE, "", <<>>)
NA           == Link(TRUE, "N/A", <<>>)

HttpPrefix  == "http://www.mediafire.com/"
HttpsPrefix == "https://www.mediafire.com/"

GoodPaths ==
    { << <<"file">>, <<"abc123">>, <<"My", "+", "File">>, <<"file">> >>,
      << <<"file">>, <<"abc123">>, <<"video", ".", "mp4">>, <<"file">> >>,
      << <<"file">>, <<"abc123">>, <<"100", "%">>, <<"file">> >>,
      << <<"file">>, <<"abc123">>, <<"file">>, <<"file">> >>,
      << <<"file">>, <<"abc123">>, <<"my", "pdf">>, <<"file">> >>,
      << <<"file">>, <<"abc123">> >> }

ValidLinks ==
    {Link(TRUE, HttpsPrefix, p) : p \in GoodPaths} \cup {Link(TRUE, HttpPrefix, <<>>)}

InvalidLinks ==
    {Link(TRUE, p, << <<"file">>, <<"abc123">>, <<"file">> >>) :
        p \in {"HTTPS://WWW.MEDIAFIRE.COM/", "https://mediafire.com/",
               "https://www.mediafire.com.evil.org/", "ftp://www.mediafire.com/"}}

RequireValues == {NoRequire, EmptyRequire} \cup ValidLinks \cup InvalidLinks

\* The handler tests the method for "OPTIONS" only.
Methods == {"GET", "POST", "OPTIONS"}

\* !mediaFireLink : null and the empty string are falsy.
Falsy(link) == ~link.present \/ (link.prefix = "" /\ link.path = <<>>)

\* startsWith compared without regard to letter case.
StartsWith_ignoreCase(link, p) ==
    link.present /\ link.prefix \in {p, "HTTPS://WWW.MEDIAFIRE.COM/"}

\* mediaFireLink.startsWith(p), for p one of the two accepted prefixes.
StartsWith(link, p) == link.present /\ link.prefix = p

\* new URL(link).pathname.split('/') for a validated link: the pathname is
\* "/" followed by the joined path.
PathSegments(link) ==
    <<<<>>>> \o (IF link.path = <<>> THEN <<<<>>>> ELSE link.path)

-----------------------------------------------------------------------------
(* Landing page *)

Tok(k, v) == [k |-> k, v |-> v]

UrlH   == "https://download.mediafire.com/h/file.zip"
UrlV   == "https://download.mediafire.com/v/key1"
UrlV2  == "https://download.mediafire.com/v/key2"
UrlW   == "https://download.mediafire.com/w/key"
UrlS   == "https://download.mediafire.com/s/file.zip"
UrlRel == "/download/relative"

\* URLs that start with http:// or https:// followed by at least one character.
HttpUrls == {UrlH, UrlV, UrlV2, UrlW, UrlS}
\* URLs that end in one of the file extensions of the fourth pattern.
ExtUrls  == {UrlH, UrlS}

Tokens ==
    { Tok("a_open", ""),          \* <a
      Tok("id_db", ""),           \*  id="download-button"
      Tok("gt", ""),              \* >
      Tok("script_open", ""),     \* <script>
      Tok("script_close", ""),    \* </script>
      Tok("href", UrlH),          \*  href="<v>"
      Tok("href", UrlRel),
      Tok("var_dl", UrlV),        \* var download_url = "<v>";
      Tok("var_dl", UrlV2),
      Tok("var_dl", UrlRel),
      Tok("win_dl", UrlW),        \* window.dl_link = "<v>";
      Tok("text", UrlS) }         \* <v> as bare text

RECURSIVE SeqsUpTo(_, _)
SeqsUpTo(S, n) ==
    IF n = 0 THEN {<<>>}
    ELSE LET shorter == SeqsUpTo(S, n - 1)
         IN  shorter \cup {Append(s, x) : s \in {t \in shorter : Len(t) = n - 1}, x \in S}

Pages == SeqsUpTo(Tokens, MaxPageLen)

\* Landing pages followed through the file relay: one per pattern, one whose
\* anchor names the id after the href, one with a relative href, one empty.
SamplePages ==
    { <<Tok("a_open", ""), Tok("id_db", ""), Tok("href", UrlH), Tok("gt", "")>>,
      <<Tok("a_open", ""), Tok("href", UrlH), Tok("id_db", ""), Tok("gt", "")>>,
      <<Tok("a_open", ""), Tok("id_db", ""), Tok("href", UrlRel), Tok("gt", "")>>,
      <<Tok("script_open", ""), Tok("var_dl", UrlV), Tok("script_close", "")>>,
      <<Tok("win_dl", UrlW)>>,
      <<Tok("script_open", ""), Tok("text", UrlS), Tok("script_close", "")>>,
      <<>> }

\* The token's text contains the character ">".
HasGt(t) == t.k \in {"gt", "script_open", "script_close"}

\* [^>]* can cover tokens i..j.
NoGt(html, i, j) == \A n \in i..j : ~HasGt(html[n])

\* /<a[^>]*id="download-button"[^>]*href="([^"]+)"/i
\* The match starts at the leftmost "<a" from which an id and a later href
\* are reached without crossing ">"; both stars are greedy, so the capture
\* is the last such href.
downloadLinkRegex1(html) ==
    LET Hrefs(i) == { k \in (i + 2)..Len(html) :
                        /\ html[k].k = "href"
                        /\ html[k].v # ""
                        /\ NoGt(html, i + 1, k - 1)
                        /\ \E j \in (i + 1)..(k - 1) : html[j].k = "id_db" }
        starts == { i \in 1..Len(html) : html[i].k = "a_open" /\ Hrefs(i) # {} }
    IN  IF starts = {} THEN NULL ELSE html[Max(Hrefs(Min(starts)))].v

\* The second pattern without the https?:// requirement on the value.
jsDownloadLinkRegex2_anyValue(html) ==
    LET hits == { i \in 1..Len(html) : html[i].k = "var_dl" /\ html[i].v # "" }
    IN  IF hits = {} THEN NULL ELSE html[Min(hits)].v

\* /var\s+download_url\s*=\s*"(https?:\/\/[^"]+)";/i : leftmost match.
jsDownloadLinkRegex2(html) ==
    LET hits == { i \in 1..Len(html) : html[i].k = "var_dl" /\ html[i].v \in HttpUrls }
    IN  IF hits = {} THEN NULL ELSE html[Min(hits)].v

\* /window\.dl_link\s*=\s*"(https?:\/\/[^"]+)";/i : leftmost match.
dlLinkRegex3(html) ==
    LET hits == { i \in 1..Len(html) : html[i].k = "win_dl" /\ html[i].v \in HttpUrls }
    IN  IF hits = {} THEN NULL ELSE html[Min(hits)].v

\* /<script[^>]*>[\s\S]*?(https?:\/\/[^\s"'<>;]+\.(?:zip|...))[\s\S]*?<\/script>/i
\* The match starts at the leftmost "<script>" after which a URL with one of
\* the extensions is followed, anywhere, by "</script>"; the first star is
\* lazy, so the capture is the first such URL.
directLinkInScriptRegex(html) ==
    LET Urls(i) == { k \in (i + 1)..Len(html) :
                        /\ html[k].v \in ExtUrls
                        /\ \E m \in (k + 1)..Len(html) : html[m].k = "script_close" }
        starts == { i \in 1..Len(html) : html[i].k = "script_open" /\ Urls(i) # {} }
    IN  IF starts = {} THEN NULL ELSE html[Min(Urls(Min(starts)))].v

\* Step 4 of the handler: the nested if/else over the four patterns.
ExtractDirectUrl(html) ==
    IF downloadLinkRegex1(html) # NULL THEN downloadLinkRegex1(html)
    ELSE IF jsDownloadLinkRegex2(html) # NULL THEN jsDownloadLinkRegex2(html)
    ELSE IF dlLinkRegex3(html) # NULL THEN dlLinkRegex3(html)
    ELSE directLinkInScriptRegex(html)

\* fetch(url) throws TypeError (invalid URL) unless url is absolute.
FetchThrows(url) == url \notin HttpUrls

-----------------------------------------------------------------------------
(* Headers and responses *)

\* A Headers object: a function from lower-cased header names to values.
HeadersSet(h, name, value) ==
    [n \in DOMAIN h \cup {name} |-> IF n = name THEN value ELSE h[n]]

HeadersDelete(h, name) == [n \in DOMAIN h \ {name} |-> h[n]]

HeadersHas(h, name) == name \in DOMAIN h

\* new Headers()
EmptyHeaders == [n \in {} |-> ""]

\* The four headers.set calls of lines 15-18, 38-41 and 147-150.
SetCors(h) ==
    HeadersSet(HeadersSet(HeadersSet(HeadersSet(h,
        "access-control-allow-origin", "*"),
        "access-control-allow-methods", "GET, HEAD, OPTIONS"),
        "access-control-allow-headers", "Content-Type"),
        "access-control-max-age", "86400")

JsonType   == <<"application", "/", "json">>
OctetType  == <<"application", "/", "octet-stream">>

\* Error messages: the fixed text and the interpolated part.
MsgMissing    == <<"Falta el parametro 'require'. Por favor, proporciona un enlace de MediaFire.", "">>
MsgInvalid    == <<"Enlace de MediaFire invalido. Debe comenzar con http(s)://www.mediafire.com/", "">>
MsgPage(st)   == <<"Error al obtener la pagina de MediaFire: ", ToString(st)>>
MsgExtract    == <<"No se pudo encontrar el enlace de descarga directo en la pagina de MediaFire. La estructura de la pagina podria haber cambiado.", "">>
MsgFile(st)   == <<"Error al descargar el archivo del enlace directo: ", ToString(st)>>
MsgInternal(e) == <<"Error interno del servidor al procesar la solicitud: ", e>>

Response(status, headers, body, error, link) ==
    [status |-> status, headers |-> headers, body |-> body,
     error |-> error, link_provided |-> link]

\* Statuses that admit no body.
NullBodyStatus == {101, 103, 204, 205, 304}

\* new Response(body, {status}) throws RangeError for a status outside
\* 200..599 and TypeError for a body with a null-body status.
ResponseThrows(body, status) ==
    \/ status \notin 200..599
    \/ body # "null" /\ status \in NullBodyStatus

\* createErrorResponse called with null for the link, as on line 53.
createErrorResponse_noLink(message, status, mediaFireLink) ==
    Response(status,
             SetCors(HeadersSet(EmptyHeaders, "content-type", JsonType)),
             "json", message, NA)

\* createErrorResponse with the Access-Control-Max-Age line left out.
createErrorResponse_noMaxAge(message, status, mediaFireLink) ==
    Response(status,
             HeadersDelete(SetCors(HeadersSet(EmptyHeaders, "content-type", JsonType)),
                           "access-control-max-age"),
             "json", message,
             IF Falsy(mediaFireLink) THEN NA ELSE mediaFireLink)

createErrorResponse(message, status, mediaFireLink) ==
    Response(status,
             SetCors(HeadersSet(EmptyHeaders, "content-type", JsonType)),
             "json", message,
             IF Falsy(mediaFireLink) THEN NA ELSE mediaFireLink)

\* The catch block of lines 232-239.
CatchResponse(e, mediaFireLink) ==
    createErrorResponse(MsgInternal(e), 500, mediaFireLink)

\* A `return createErrorResponse(...)` inside the try block.
TryErrorResponse(message, status, mediaFireLink) ==
    IF ResponseThrows("json", status)
    THEN CatchResponse("Response with null body status cannot have body", mediaFireLink)
    ELSE createErrorResponse(message, status, mediaFireLink)

\* Lines 36-43.
PreflightResponse == Response(204, SetCors(EmptyHeaders), "null", <<>>, NoRequire)

\* response.ok
Ok(status) == status \in 200..299

\* Statuses the upstream answers with.
UpstreamStatuses == {200, 204, 304, 404, 503}

-----------------------------------------------------------------------------
(* The handler up to the file fetch *)

NoFileResponse == [status |-> 0, headers |-> EmptyHeaders]

Init ==
    /\ pc = "idle"
    /\ request = [method |-> "", require |-> NoRequire]
    /\ fetches = <<>>
    /\ pageStatus = 0
    /\ htmlContent = <<>>
    /\ bodyRead = FALSE
    /\ directDownloadUrl = NULL
    /\ fileResponse = NoFileResponse
    /\ responses = <<>>

Return(r) ==
    /\ responses' = Append(responses, r)
    /\ pc' = "done"

PageFetch(link) == [kind |-> "page", link |-> link, url |-> ""]
FileFetch(url)  == [kind |-> "file", link |-> NoRequire, url |-> url]

\* Receive with the landing-page fetch issued ahead of the prefix check.
Receive_fetchFirst(method, require) ==
    /\ pc = "idle"
    /\ request' = [method |-> method, require |-> require]
    /\ IF method = "OPTIONS"
       THEN Return(PreflightResponse) /\ UNCHANGED fetches
       ELSE IF Falsy(require)
       THEN Return(createErrorResponse(MsgMissing, 400, NoRequire)) /\ UNCHANGED fetches
       ELSE /\ fetches' = Append(fetches, PageFetch(require))
            /\ pc' = "awaitPage"
            /\ UNCHANGED responses
    /\ UNCHANGED <<pageStatus, htmlContent, bodyRead, directDownloadUrl, fileResponse>>

\* Lines 34-76: preflight, validation, and the landing-page fetch.
Receive(method, require) ==
    /\ pc = "idle"
    /\ request' = [method |-> method, require |-> require]
    /\ IF method = "OPTIONS"
       THEN Return(PreflightResponse) /\ UNCHANGED fetches
       ELSE IF Falsy(require)
       THEN Return(createErrorResponse(MsgMissing, 400, NoRequire)) /\ UNCHANGED fetches
       ELSE IF ~StartsWith(require, HttpPrefix) /\ ~StartsWith(require, HttpsPrefix)
       THEN Return(createErrorResponse(MsgInvalid, 400, require)) /\ UNCHANGED fetches
       ELSE /\ fetches' = Append(fetches, PageFetch(require))
            /\ pc' = "awaitPage"
            /\ UNCHANGED responses
    /\ UNCHANGED <<pageStatus, htmlContent, bodyRead, directDownloadUrl, fileResponse>>

\* Line 70: the landing-page fetch rejects (network failure).
PageFetchRejects ==
    /\ pc = "awaitPage"
    /\ Return(CatchResponse("fetch failed", request.require))
    /\ UNCHANGED <<request, fetches, pageStatus, htmlContent, bodyRead,
                   directDownloadUrl, fileResponse>>

\* Lines 78-84: the landing page answers outside 2xx.
PageNotOk(status) ==
    /\ pc = "awaitPage"
    /\ ~Ok(status)
    /\ pageStatus' = status
    /\ Return(TryErrorResponse(MsgPage(status), status, request.require))
    /\ UNCHANGED <<request, fetches, htmlContent, bodyRead, directDownloadUrl, fileResponse>>

\* Line 86: the landing page answers 2xx and reading its body rejects.
PageBodyRejects(status) ==
    /\ pc = "awaitPage"
    /\ Ok(status)
    /\ pageStatus' = status
    /\ Return(CatchResponse("body read failed", request.require))
    /\ UNCHANGED <<request, fetches, htmlContent, bodyRead, directDownloadUrl, fileResponse>>

\* Lines 86-133: the landing page answers 2xx with text `html`; extraction
\* and the file fetch.
PageOk(status, html) ==
    /\ pc = "awaitPage"
    /\ Ok(status)
    /\ status \in NullBodyStatus => html = <<>>
    /\ pageStatus' = status
    /\ htmlContent' = html
    /\ bodyRead' = TRUE
    /\ directDownloadUrl' = ExtractDirectUrl(html)
    /\ IF directDownloadUrl' = NULL
       THEN Return(TryErrorResponse(MsgExtract, 500, request.require)) /\ UNCHANGED fetches
       ELSE IF FetchThrows(directDownloadUrl')
       THEN Return(CatchResponse("Invalid URL", request.require)) /\ UNCHANGED fetches
       ELSE /\ fetches' = Append(fetches, FileFetch(directDownloadUrl'))
            /\ pc' = "awaitFile"
            /\ UNCHANGED responses
    /\ UNCHANGED <<request, fileResponse>>

-----------------------------------------------------------------------------
(* The file relay *)

DefaultName == <<"downloaded_file">>

\* /filename\*?=['"]?(?:UTF-8'')?([^;"]+)/i on a Content-Disposition value.
\* The capture is the longest run free of ";" and the double quote after
\* the optional quote and the optional UTF-8'' prefix; an option is given
\* up only when the capture after it would be empty.  <<>> when no match.
FilenameMatch(cd) ==
    LET Run(p) ==
            LET stops == {n \in p..Len(cd) : cd[n] \in {";", Q}}
            IN  SubSeq(cd, p, IF stops = {} THEN Len(cd) ELSE Min(stops) - 1)
        At(p, x) == p <= Len(cd) /\ cd[p] = x
        AfterQuote(p) == IF At(p, Q) \/ At(p, "'") THEN p + 1 ELSE p
        AfterUtf(p) == IF At(p, "UTF-8''") THEN p + 1 ELSE p
        Capture(i) ==
            IF Run(AfterUtf(AfterQuote(i + 1))) # <<>> THEN Run(AfterUtf(AfterQuote(i + 1)))
            ELSE IF Run(AfterQuote(i + 1)) # <<>> THEN Run(AfterQuote(i + 1))
            ELSE IF Run(AfterUtf(i + 1)) # <<>> THEN Run(AfterUtf(i + 1))
            ELSE Run(i + 1)
        starts == {i \in 1..Len(cd) : cd[i] \in {"filename=", "filename*="} /\ Capture(i) # <<>>}
    IN  IF starts = {} THEN <<>> ELSE Capture(Min(starts))

\* Chunks made of letters and digits only.
AlnumChunks == {"file", "abc123", "my", "pdf", "My", "File", "video", "mp4", "100"}

Alnum(seg) == seg # <<>> /\ \A n \in 1..Len(seg) : seg[n] \in AlnumChunks

\* originalUrl.pathname.match(/\/file\/([a-zA-Z0-9]+)\//): the first path
\* segment "file" followed by a segment of letters and digits and a "/".
hashMatch(segments) ==
    LET hits == {i \in 2..(Len(segments) - 2) :
                    segments[i] = <<"file">> /\ Alnum(segments[i + 1])}
    IN  IF hits = {} THEN <<>> ELSE segments[Min(hits) + 1]

\* Lines 174-189: the name taken from the MediaFire link; the catch keeps
\* the default name.
NameFromLink(mediaFireLink) ==
    LET segments == PathSegments(mediaFireLink)
        lastSegment == segments[Len(segments) - 1]
    IN  IF lastSegment # <<>> /\ lastSegment # <<"file">>
        THEN IF DecodeThrows(ReplacePlus(lastSegment))
             THEN DefaultName
             ELSE decodeURIComponent(ReplacePlus(lastSegment))
        ELSE IF hashMatch(segments) # <<>>
             THEN <<"mediafire_file_">> \o hashMatch(segments)
             ELSE DefaultName

Mime(type, subtype) == <<type, "/", subtype>>

\* Lines 194-210.
extMap ==
    (Mime("image", "jpeg") :> <<"jpg">>) @@ (Mime("image", "png") :> <<"png">>) @@
    (Mime("image", "gif") :> <<"gif">>) @@
    (Mime("application", "pdf") :> <<"pdf">>) @@ (Mime("application", "zip") :> <<"zip">>) @@
    (Mime("application", "vnd.rar") :> <<"rar">>) @@
    (Mime("application", "x-7z-compressed") :> <<"7z">>) @@
    (Mime("audio", "mpeg") :> <<"mp3">>) @@ (Mime("video", "mp4") :> <<"mp4">>) @@
    (Mime("application", "vnd.openxmlformats-officedocument.wordprocessingml.document") :> <<"docx">>) @@
    (Mime("application", "msword") :> <<"doc">>) @@
    (Mime("application", "vnd.openxmlformats-officedocument.spreadsheetml.sheet") :> <<"xlsx">>) @@
    (Mime("application", "vnd.ms-excel") :> <<"xls">>) @@
    (Mime("application", "vnd.openxmlformats-officedocument.presentationml.presentation") :> <<"pptx">>) @@
    (Mime("application", "vnd.ms-powerpoint") :> <<"ppt">>) @@
    (Mime("application", "x-bittorrent") :> <<"torrent">>) @@
    (Mime("application", "x-iso9660-image") :> <<"iso">>) @@
    (Mime("application", "vnd.android.package-archive") :> <<"apk">>) @@
    (Mime("text", "plain") :> <<"txt">>)

\* Line 211 with the table alone, without the fallback to the subtype.
ExtFor_tableOnly(mime) ==
    IF mime \in DOMAIN extMap THEN extMap[mime] ELSE <<>>

\* Line 211: extMap[mime] || mime.split('/')[1]; <<>> stands for undefined
\* and for the empty string, both falsy.
ExtFor(mime) ==
    IF mime \in DOMAIN extMap THEN extMap[mime]
    ELSE IF Len(Split(mime, "/")) >= 2 THEN Split(mime, "/")[2]
    ELSE <<>>

\* Lines 192-215: the extension added to a name taken from the link.
WithExtension(filename, contentType) ==
    LET mime == Split(contentType, ";")[1]
        ext == ExtFor(mime)
    IN  IF ~Includes(filename, <<".">>) /\ contentType # <<>>
        THEN IF ext # <<>> /\ ~Includes(filename, ext)
             THEN filename \o <<".">> \o ext
             ELSE filename
        ELSE filename

\* Line 153.
ResolvedContentType(upstream) ==
    IF HeadersHas(upstream, "content-type") /\ upstream["content-type"] # <<>>
    THEN upstream["content-type"]
    ELSE OctetType

\* Lines 162-170: the raw filename of the upstream Content-Disposition,
\* <<>> when the header is absent or carries none.
RawDispositionName(upstream) ==
    IF HeadersHas(upstream, "content-disposition") /\ upstream["content-disposition"] # <<>>
    THEN FilenameMatch(upstream["content-disposition"])
    ELSE <<>>

\* Line 168 throws URIError; it is outside the inner try.
FilenameThrows(upstream) == DecodeThrows(RawDispositionName(upstream))

\* Lines 161-216, when line 168 does not throw.
Filename(upstream, mediaFireLink) ==
    LET raw == RawDispositionName(upstream)
        fromHeader == IF raw # <<>> THEN decodeURIComponent(raw) ELSE DefaultName
    IN  IF fromHeader = DefaultName
        THEN WithExtension(NameFromLink(mediaFireLink), ResolvedContentType(upstream))
        ELSE fromHeader

\* Line 219.
Disposition(filename) == <<"attachment", ";", "filename=", Q>> \o filename \o <<Q>>

Scrubbed == {"set-cookie", "cf-ray", "alt-svc", "vary", "etag",
             "content-encoding", "accept-ranges"}

RECURSIVE DeleteAll(_, _)
DeleteAll(h, names) ==
    IF names = {} THEN h
    ELSE LET n == CHOOSE x \in names : TRUE
         IN  DeleteAll(HeadersDelete(h, n), names \ {n})

\* The relayed headers started from a copy of the upstream headers, with
\* the deletions of lines 222-228 left out.
RelayHeaders_copyUpstream(upstream, mediaFireLink) ==
    LET h1 == SetCors(upstream)
        h2 == HeadersSet(h1, "content-type", ResolvedContentType(upstream))
    IN  HeadersSet(h2, "content-disposition",
                   Disposition(Filename(upstream, mediaFireLink)))

\* Lines 144-228: the headers of the relayed response.
RelayHeaders(upstream, mediaFireLink) ==
    LET h1 == SetCors(EmptyHeaders)
        h2 == HeadersSet(h1, "content-type", ResolvedContentType(upstream))
        h3 == IF HeadersHas(upstream, "content-length")
              THEN HeadersSet(h2, "content-length", upstream["content-length"])
              ELSE h2
        h4 == HeadersSet(h3, "content-disposition",
                         Disposition(Filename(upstream, mediaFireLink)))
    IN  DeleteAll(h4, Scrubbed)

\* fileResponse.body: null for a status that admits no body.
UpstreamBody(status) == IF status \in NullBodyStatus THEN "null" ELSE "stream"

-----------------------------------------------------------------------------
(* What the upstream file response can carry *)

ContentTypes ==
    { Mime("application", "pdf"),
      OctetType,
      <<"image", "/", "png", ";", " charset=binary">>,
      <<"unknown">>,
      <<>> }

Dispositions ==
    { <<"attachment">>,
      <<"attachment", ";", "filename=", Q, "report", ".", "pdf", Q>>,
      <<"attachment", ";", "filename=", Q, "100", "%", ".", "pdf", Q>>,
      <<"attachment", ";", "filename*=", "UTF-8''", "My", "%", "20", "Doc", ".", "pdf">>,
      <<"attachment", ";", "filename=", Q, Q>> }

\* Headers the upstream may send besides the three the relay reads.
OriginHeaders == [n \in Scrubbed |-> "origin"]

UpstreamHeaderSets ==
    { LET a == IF ct = <<"absent">> THEN base ELSE HeadersSet(base, "content-type", ct)
          b == IF cd = <<"absent">> THEN a ELSE HeadersSet(a, "content-disposition", cd)
      IN  IF cl THEN HeadersSet(b, "content-length", "1024") ELSE b :
      base \in {EmptyHeaders, OriginHeaders},
      ct \in ContentTypes \cup {<<"absent">>},
      cd \in Dispositions \cup {<<"absent">>},
      cl \in BOOLEAN }

-----------------------------------------------------------------------------
(* The handler after the file fetch *)

\* Line 127: the file fetch rejects (network failure).
FileFetchRejects ==
    /\ pc = "awaitFile"
    /\ Return(CatchResponse("fetch failed", request.require))
    /\ UNCHANGED <<request, fetches, pageStatus, htmlContent, bodyRead,
                   directDownloadUrl, fileResponse>>

\* Lines 135-141: the direct URL answers outside 2xx.
FileNotOk(status, upstream) ==
    /\ pc = "awaitFile"
    /\ ~Ok(status)
    /\ fileResponse' = [status |-> status, headers |-> upstream]
    /\ Return(TryErrorResponse(MsgFile(status), status, request.require))
    /\ UNCHANGED <<request, fetches, pageStatus, htmlContent, bodyRead, directDownloadUrl>>

\* Lines 143-230: the direct URL answers 2xx; the relayed response.
FileOk(status, upstream) ==
    /\ pc = "awaitFile"
    /\ Ok(status)
    /\ fileResponse' = [status |-> status, headers |-> upstream]
    /\ IF FilenameThrows(upstream)
       THEN Return(CatchResponse("URI malformed", request.require))
       ELSE IF ResponseThrows(UpstreamBody(status), status)
       THEN Return(CatchResponse("Response with null body status cannot have body",
                                 request.require))
       ELSE Return(Response(status, RelayHeaders(upstream, request.require),
                            UpstreamBody(status), <<>>, NoRequire))
    /\ UNCHANGED <<request, fetches, pageStatus, htmlContent, bodyRead, directDownloadUrl>>

\* The whole request, the landing page drawn from SamplePages.
Next ==
    \/ pc = "idle" /\ \E m \in Methods, r \in RequireValues : Receive(m, r)
    \/ PageFetchRejects
    \/ pc = "awaitPage" /\ \E s \in UpstreamStatuses : PageNotOk(s)
    \/ pc = "awaitPage" /\ \E s \in UpstreamStatuses : PageBodyRejects(s)
    \/ pc = "awaitPage" /\ \E s \in UpstreamStatuses, html \in SamplePages : PageOk(s, html)
    \/ FileFetchRejects
    \/ pc = "awaitFile" /\ \E s \in UpstreamStatuses, u \in UpstreamHeaderSets : FileNotOk(s, u)
    \/ pc = "awaitFile" /\ \E s \in UpstreamStatuses, u \in UpstreamHeaderSets : FileOk(s, u)

Spec == Init /\ [][Next]_vars

\* The request up to the file fetch, the landing page drawn from Pages.
NextPage ==
    \/ pc = "idle" /\ \E m \in Methods, r \in RequireValues : Receive(m, r)
    \/ PageFetchRejects
    \/ pc = "awaitPage" /\ \E s \in UpstreamStatuses : PageNotOk(s)
    \/ pc = "awaitPage" /\ \E s \in UpstreamStatuses : PageBodyRejects(s)
    \/ pc = "awaitPage" /\ \E s \in UpstreamStatuses, html \in Pages : PageOk(s, html)

SpecPage == Init /\ [][NextPage]_vars

-----------------------------------------------------------------------------
(* Properties *)

Done == pc = "done" /\ Len(responses) = 1
Resp == responses[1]

\* The file fetch returned 2xx.
FileReturnedOk == fileResponse.status \in 200..299

\* The handler answered with the relayed file.
Relayed == Done /\ FileReturnedOk /\ Resp.body # "json" /\ Resp.status = fileResponse.status

\* The filename="..." value of the relayed Content-Disposition (line 219).
EmittedName == SubSeq(Resp.headers["content-disposition"], 5,
                      Len(Resp.headers["content-disposition"]) - 1)

\* C1: every response the handler returns carries the four CORS headers
\* with exactly the values *, "GET, HEAD, OPTIONS", "Content-Type", "86400".
CorsOnEveryResponse ==
    \A i \in 1..Len(responses) :
        LET h == responses[i].headers
        IN  /\ {"access-control-allow-origin", "access-control-allow-methods",
                "access-control-allow-headers", "access-control-max-age"} \subseteq DOMAIN h
            /\ h["access-control-allow-origin"] = "*"
            /\ h["access-control-allow-methods"] = "GET, HEAD, OPTIONS"
            /\ h["access-control-allow-headers"] = "Content-Type"
            /\ h["access-control-max-age"] = "86400"

\* An uncaught fault after a 2xx file fetch was answered with the error envelope.
CorsWitness ==
    Done /\ FileReturnedOk /\ Resp.status = 500 /\ Resp.body = "json"

\* C2: a non-OPTIONS request with a missing or empty `require` gets 400,
\* a non-empty error and link_provided "N/A"; one whose value starts with
\* neither accepted prefix gets 400 and link_provided equal to the value;
\* one whose value starts with an accepted prefix is not rejected by the
\* validator: the landing-page fetch is issued to it.
ValidatorContract ==
    (pc # "idle" /\ request.method # "OPTIONS") =>
        LET v == request.require
            prefixed == v.present /\ v.prefix \in {"http://www.mediafire.com/",
                                                   "https://www.mediafire.com/"}
            empty == ~v.present \/ (v.prefix = "" /\ v.path = <<>>)
        IN  /\ empty => /\ Done
                        /\ Resp.status = 400
                        /\ Resp.body = "json"
                        /\ Resp.error # <<>> /\ Resp.error[1] # ""
                        /\ Resp.link_provided = NA
            /\ (~empty /\ ~prefixed) => /\ Done
                                        /\ Resp.status = 400
                                        /\ Resp.link_provided = v
            /\ prefixed => /\ fetches # <<>>
                           /\ fetches[1].kind = "page" /\ fetches[1].link = v
                           /\ \A i \in 1..Len(responses) :
                                  responses[i].error \notin {MsgMissing, MsgInvalid}

\* A link that differs from an accepted prefix in letter case only was rejected.
ValidatorWitness ==
    /\ Done /\ request.method = "GET"
    /\ request.require.prefix = "HTTPS://WWW.MEDIAFIRE.COM/"
    /\ Resp.status = 400 /\ Resp.link_provided = request.require

\* The anchors of a page: "<a", attributes, ">".
IsAnchor(html, i, e) ==
    /\ i < e /\ e <= Len(html)
    /\ html[i].k = "a_open" /\ html[e].k = "gt"
    /\ \A n \in (i + 1)..(e - 1) : html[n].k \in {"id_db", "href"}

\* The anchor at i..e has id download-button and href x (its first href).
DownloadAnchor(html, i, e, x) ==
    /\ IsAnchor(html, i, e)
    /\ \E n \in (i + 1)..(e - 1) : html[n].k = "id_db"
    /\ \E n \in (i + 1)..(e - 1) :
          /\ html[n].k = "href" /\ html[n].v = x
          /\ \A m \in (i + 1)..(n - 1) : html[m].k # "href"

\* C3: whenever the landing page contains an anchor whose id is
\* download-button and whose href is X (non-empty), the extractor returns X,
\* whatever lower-priority patterns also match.
AnchorHrefWins ==
    bodyRead =>
        \A i \in 1..Len(htmlContent), e \in 1..Len(htmlContent), x \in HttpUrls \cup {UrlRel} :
            DownloadAnchor(htmlContent, i, e, x) => directDownloadUrl = x

\* C4 as stated: on a page without a download-button anchor, a
\* `var download_url = "X";` with X any non-empty value makes the extractor
\* return X (the X of one of them when there are several).
VarDownloadUrlAnyValue ==
    (bodyRead
     /\ (\A n \in 1..Len(htmlContent) : htmlContent[n].k # "id_db")
     /\ (\E n \in 1..Len(htmlContent) : htmlContent[n].k = "var_dl" /\ htmlContent[n].v # ""))
    => \E n \in 1..Len(htmlContent) :
          htmlContent[n].k = "var_dl" /\ directDownloadUrl = htmlContent[n].v

\* C4 amended: on a page without any id="download-button" attribute, when
\* some `var download_url = "X";` has an X that starts with http:// or
\* https://, the extractor returns the X of the first such assignment and
\* the file fetch is issued to it.
VarDownloadUrlHttp ==
    bodyRead =>
        \A n \in 1..Len(htmlContent) :
            (/\ \A m \in 1..Len(htmlContent) : htmlContent[m].k # "id_db"
             /\ htmlContent[n].k = "var_dl" /\ htmlContent[n].v \in HttpUrls
             /\ \A m \in 1..(n - 1) :
                   ~(htmlContent[m].k = "var_dl" /\ htmlContent[m].v \in HttpUrls))
            => /\ directDownloadUrl = htmlContent[n].v
               /\ Len(fetches) = 2
               /\ fetches[2].kind = "file" /\ fetches[2].url = htmlContent[n].v

\* A relative assignment comes first and an absolute one second; a
\* dl_link assignment is present as well.  The second one was returned.
VarDownloadUrlWitness ==
    /\ bodyRead
    /\ htmlContent = <<Tok("var_dl", UrlRel), Tok("win_dl", UrlW),
                       Tok("var_dl", UrlV2), Tok("var_dl", UrlV)>>
    /\ directDownloadUrl = UrlV2

\* C5: a validated request whose landing page came back 2xx with a body
\* matching none of the four patterns ends with status 500, the
\* extraction-failure message and link_provided equal to the source link,
\* and no file fetch is issued.
ExtractionFailure ==
    (/\ bodyRead
     /\ downloadLinkRegex1(htmlContent) = NULL
     /\ jsDownloadLinkRegex2(htmlContent) = NULL
     /\ dlLinkRegex3(htmlContent) = NULL
     /\ directLinkInScriptRegex(htmlContent) = NULL)
    => /\ Done
       /\ Resp.status = 500
       /\ Resp.body = "json"
       /\ Resp.error = MsgExtract
       /\ Resp.link_provided = request.require
       /\ \A i \in 1..Len(fetches) : fetches[i].kind # "file"

\* A page of four tokens, with a relative download_url and an unclosed
\* script, matched nothing.
ExtractionFailureWitness ==
    /\ Done /\ bodyRead
    /\ htmlContent = <<Tok("script_open", ""), Tok("text", UrlS),
                       Tok("var_dl", UrlRel), Tok("gt", "")>>
    /\ Resp.status = 500 /\ Resp.error = MsgExtract

\* C6: every non-2xx status S of the upstream, from the landing-page fetch
\* or from the file fetch, is the status of the handler's JSON error.
UpstreamStatusMirrored ==
    Done =>
        /\ (pageStatus # 0 /\ pageStatus \notin 200..299)
              => Resp.status = pageStatus /\ Resp.body = "json"
        /\ (fileResponse.status # 0 /\ fileResponse.status \notin 200..299)
              => Resp.status = fileResponse.status /\ Resp.body = "json"

\* C7: a relayed response carries none of set-cookie, cf-ray, alt-svc,
\* vary, etag, content-encoding, accept-ranges.
ScrubbedHeadersAbsent ==
    Relayed =>
        DOMAIN Resp.headers \cap {"set-cookie", "cf-ray", "alt-svc", "vary", "etag",
                                  "content-encoding", "accept-ranges"} = {}

\* The upstream sent all seven and the file was relayed.
ScrubbedWitness ==
    /\ Relayed
    /\ {"set-cookie", "cf-ray", "alt-svc", "vary", "etag",
        "content-encoding", "accept-ranges"} \subseteq DOMAIN fileResponse.headers

\* C8: no fetch for OPTIONS or for a request that fails validation; at
\* most one landing-page fetch, first, and at most one file fetch, second,
\* issued only after the landing page returned 2xx and extraction gave a
\* URL; a finished request has exactly one response and an unfinished one
\* none; a file response is received only after the file fetch.
StepOrder ==
    LET v == request.require
        prefixed == v.present /\ v.prefix \in {"http://www.mediafire.com/",
                                               "https://www.mediafire.com/"}
    IN  /\ (pc # "idle" /\ (request.method = "OPTIONS" \/ ~prefixed)) => fetches = <<>>
        /\ Len(fetches) <= 2
        /\ \A i \in 1..Len(fetches) : fetches[i].kind = (IF i = 1 THEN "page" ELSE "file")
        /\ Len(fetches) = 2 => /\ pageStatus \in 200..299
                               /\ bodyRead
                               /\ directDownloadUrl # NULL
                               /\ fetches[2].url = directDownloadUrl
        /\ pageStatus # 0 => Len(fetches) >= 1
        /\ fileResponse.status # 0 => Len(fetches) = 2
        /\ Len(responses) = (IF pc = "done" THEN 1 ELSE 0)
        /\ pc = "awaitPage" => Len(fetches) = 1
        /\ pc = "awaitFile" => Len(fetches) = 2

\* A request went through both fetches and was relayed.
StepOrderWitness == Relayed /\ Len(fetches) = 2

\* The upstream Content-Disposition gives the relay no filename.
NoDispositionName ==
    \/ "content-disposition" \notin DOMAIN fileResponse.headers
    \/ fileResponse.headers["content-disposition"]
          \in {<<>>, <<"attachment">>, <<"attachment", ";", "filename=", Q, Q>>}

\* The name each link of the model gives, by lines 174-189.
NameOfPath(path) ==
    CASE path = << <<"file">>, <<"abc123">>, <<"My", "+", "File">>, <<"file">> >>
            -> <<"My", " ", "File">>
      [] path = << <<"file">>, <<"abc123">>, <<"video", ".", "mp4">>, <<"file">> >>
            -> <<"video", ".", "mp4">>
      [] path = << <<"file">>, <<"abc123">>, <<"file">>, <<"file">> >>
            -> <<"mediafire_file_", "abc123">>
      [] path = << <<"file">>, <<"abc123">>, <<"my", "pdf">>, <<"file">> >>
            -> <<"my", "pdf">>
      [] OTHER -> <<"downloaded_file">>

\* The Content-Type the relay resolves, parameters stripped.
ResolvedMime ==
    LET h == fileResponse.headers
        ct == IF "content-type" \in DOMAIN h /\ h["content-type"] # <<>>
              THEN h["content-type"] ELSE <<"application", "/", "octet-stream">>
    IN  IF \E n \in 1..Len(ct) : ct[n] = ";"
        THEN SubSeq(ct, 1, (CHOOSE n \in 1..Len(ct) : ct[n] = ";" /\ \A m \in 1..(n - 1) : ct[m] # ";") - 1)
        ELSE ct

InferredCase ==
    /\ Relayed
    /\ NoDispositionName
    /\ \A n \in 1..Len(NameOfPath(request.require.path)) :
          NameOfPath(request.require.path)[n] # "."

\* C9 as stated: with no usable Content-Disposition filename and an
\* inferred name without ".", the table's extension is appended when the
\* resolved Content-Type is a key of the table and the extension is not a
\* substring of the name; for a Content-Type that is not a key the
\* inferred name is emitted with nothing appended.
ExtensionFromTableOnly ==
    InferredCase =>
        LET name == NameOfPath(request.require.path)
        IN  IF ResolvedMime \in DOMAIN extMap /\ ~Includes(name, extMap[ResolvedMime])
            THEN EmittedName = name \o <<".">> \o extMap[ResolvedMime]
            ELSE EmittedName = name

\* C9 amended: the extension is the table's entry when the resolved
\* Content-Type is a key of the table and otherwise the part of the
\* Content-Type between its first and second "/"; it is appended when it is
\* non-empty and not a substring of the name, so application/octet-stream
\* appends ".octet-stream" and a Content-Type without "/" appends nothing.
ExtensionFromTableOrSubtype ==
    InferredCase =>
        LET name == NameOfPath(request.require.path)
            ext == CASE ResolvedMime = <<"application", "/", "pdf">> -> <<"pdf">>
                     [] ResolvedMime = <<"image", "/", "png">> -> <<"png">>
                     [] ResolvedMime = <<"application", "/", "octet-stream">> -> <<"octet-stream">>
                     [] OTHER -> <<>>
        IN  IF ext # <<>> /\ ~Includes(name, ext)
            THEN EmittedName = name \o <<".">> \o ext
            ELSE EmittedName = name

\* No Content-Type upstream: "My File" was emitted as "My File.octet-stream".
ExtensionWitness ==
    /\ InferredCase
    /\ "content-type" \notin DOMAIN fileResponse.headers
    /\ EmittedName = <<"My", " ", "File", ".", "octet-stream">>

\* C10: once the file fetch has returned 2xx, no parsing or
\* percent-decoding failure of filename inference fails the request: the
\* response is the relayed file with the upstream status.
FilenameFailureSwallowed ==
    (Done /\ FileReturnedOk) =>
        /\ Resp.status = fileResponse.status
        /\ Resp.body # "json"

====
